---- MODULE Spec2Model ----
(***************************************************************************)
(* A model of mikrotik_chatbot.py: the Translator (get_ai_response), the   *)
(* Executor (execute_command), the Formatter (format_response) and the     *)
(* Streamlit session around them (Connect, Disconnect, REBOOT ROUTER NOW   *)
(* and the chat turn).                                                     *)
(*                                                                         *)
(* Python values are tagged records:                                       *)
(*   None            [t |-> "none", s |-> "None"]                          *)
(*   a JSON string   [t |-> "str",  s |-> "..."]                           *)
(*   a JSON number   [t |-> "num",  s |-> "..."]                           *)
(*   JSON null       [t |-> "null", s |-> "null"]                          *)
(*   a dict          [t |-> "obj",  m |-> function from keys to values]    *)
(*   a built string  [t |-> "text", parts |-> sequence of items]           *)
(*   a list of rows  [t |-> "list", l |-> sequence of records]             *)
(* The text of a model reply is a sequence of tokens [k, v]: the JSON      *)
(* tokens and the words of the surrounding prose.                          *)
(***************************************************************************)
EXTENDS Naturals, Sequences, FiniteSets, TLC

VARIABLES
    api_connection,   \* st.session_state['api_connection']: "None" or "api"
    connection_pool,  \* st.session_state['connection_pool']: "None" or "pool"
    api_key,          \* st.session_state.api_key, the sidebar's key widget
    messages,         \* st.session_state.messages, the transcript
    turns,            \* chat turns that entered the pipeline (bounds the run)
    last,             \* what the last script run did: handler, calls, outcome
    fn,               \* the core entry point applied last, on its own
    args,             \* its arguments
    ret               \* its return value and the outbound calls it made

vars == <<api_connection, connection_pool, api_key, messages, turns, last,
          fn, args, ret>>

sessionVars == <<api_connection, connection_pool, api_key, messages, turns, last>>

callVars == <<fn, args, ret>>

\* ---------------------------------------------------------------- bounds

\* Segments a model reply is made of.
MaxSegs == 2

\* Records in one router query result.
MaxRecs == 2

\* Chat turns of one session that enter the pipeline.
MaxTurns == 2

\* ---------------------------------------------------------------- values

None == [t |-> "none", s |-> "None"]

Str(x) == [t |-> "str", s |-> x]

Num(x) == [t |-> "num", s |-> x]

Null == [t |-> "null", s |-> "null"]

EmptyMap == [x \in {} |-> x]

Obj(f) == [t |-> "obj", m |-> f]

Lit(x) == [k |-> "lit", s |-> x]

Text(items) == [t |-> "text", parts |-> items]

List(rows) == [t |-> "list", l |-> rows]

\* isinstance(v, dict)
IsDict(v) == v.t = "obj"

\* isinstance(v, str)
IsStr(v) == v.t \in {"str", "text"}

\* Python truthiness of a value: `if v`, `not v`
Truthy(v) ==
    CASE v.t = "none" -> FALSE
      [] v.t = "null" -> FALSE
      [] v.t = "str"  -> v.s # ""
      [] v.t = "num"  -> v.s # "0"
      [] v.t = "obj"  -> DOMAIN v.m # {}
      [] v.t = "text" -> v.parts # <<>>
      [] v.t = "list" -> v.l # <<>>

\* ---------------------------------------------------------------- tokens

P(x) == [k |-> "punct", v |-> x]

LB == P("{")

RB == P("}")

COLON == P(":")

COMMA == P(",")

S(x) == [k |-> "str", v |-> x]

N(x) == [k |-> "num", v |-> x]

NULL == [k |-> "null", v |-> "null"]

W(x) == [k |-> "word", v |-> x]

\* ------------------------------------------------------------ json.loads

ParseFail == [ok |-> FALSE]

RECURSIVE ParseValue(_, _), ParseMembers(_, _, _)

\* One JSON value starting at token i: [ok, val, next].
ParseValue(toks, i) ==
    IF i > Len(toks) THEN ParseFail
    ELSE LET tk == toks[i] IN
         CASE tk.k = "str"  -> [ok |-> TRUE, val |-> Str(tk.v), next |-> i + 1]
           [] tk.k = "num"  -> [ok |-> TRUE, val |-> Num(tk.v), next |-> i + 1]
           [] tk.k = "null" -> [ok |-> TRUE, val |-> Null, next |-> i + 1]
           [] tk = LB ->
                IF i + 1 <= Len(toks) /\ toks[i + 1] = RB
                THEN [ok |-> TRUE, val |-> Obj(EmptyMap), next |-> i + 2]
                ELSE ParseMembers(toks, i + 1, EmptyMap)
           [] OTHER -> ParseFail

\* The members of an object from token i on, acc holding those read so far:
\* "key" : value, then "," and another member, or "}".  A repeated key keeps
\* its last value.
ParseMembers(toks, i, acc) ==
    IF i + 1 > Len(toks) \/ toks[i].k # "str" \/ toks[i + 1] # COLON
    THEN ParseFail
    ELSE LET v == ParseValue(toks, i + 2) IN
         IF ~v.ok THEN ParseFail
         ELSE LET acc2 == (toks[i].v :> v.val) @@ acc
                  j == v.next
              IN IF j > Len(toks) THEN ParseFail
                 ELSE IF toks[j] = RB
                      THEN [ok |-> TRUE, val |-> Obj(acc2), next |-> j + 1]
                      ELSE IF toks[j] = COMMA
                           THEN ParseMembers(toks, j + 1, acc2)
                           ELSE ParseFail

\* json.loads(s): the value when s is exactly one JSON document, a
\* JSONDecodeError (ok = FALSE) otherwise (also on trailing data).
json_loads(toks) ==
    LET r == ParseValue(toks, 1) IN
    IF r.ok /\ r.next = Len(toks) + 1
    THEN [ok |-> TRUE, val |-> r.val]
    ELSE [ok |-> FALSE, val |-> None]

\* -------------------------------------------------------------- re.search

Min(s) == CHOOSE x \in s : \A y \in s : x <= y

Max(s) == CHOOSE x \in s : \A y \in s : x >= y

\* re.search(r'\{.*\}', text, re.DOTALL): the leftmost match, grown greedily;
\* "." matches every character, so the match runs from the first "{" that
\* has a "}" after it to the last "}" of the text.
re_search(text) ==
    LET starts == {i \in 1..Len(text) :
                      text[i] = LB /\ \E j \in (i + 1)..Len(text) : text[j] = RB}
    IN IF starts = {} THEN [found |-> FALSE, group0 |-> <<>>]
       ELSE LET i == Min(starts)
                j == Max({x \in 1..Len(text) : text[x] = RB})
            IN [found |-> TRUE, group0 |-> SubSeq(text, i, j)]

\* -------------------------------------------------------- get_ai_response

\* What the language-model service does in one call of the Translator:
\* genai.configure / GenerativeModel raises, generate_content raises an error
\* whose text is err, or it answers with the reply `text`.
SvcConfigureRaises == [kind |-> "configure_raises", err |-> "bad key", text |-> <<>>]

SvcRaises(e) == [kind |-> "generate_raises", err |-> e, text |-> <<>>]

SvcReply(toks) == [kind |-> "reply", err |-> "", text |-> toks]

\* The schema test of line 85:
\*   "cmd" in command_info and isinstance(command_info.get("params"), dict)
SchemaOk(command_info) ==
    /\ "cmd" \in DOMAIN command_info.m
    /\ "params" \in DOMAIN command_info.m
    /\ IsDict(command_info.m["params"])

\* get_ai_response(user_input, api_key), key being the api_key argument and
\* svc what the service does.
\* val: the dict returned, or None; error: the st.error shown ("" for none);
\* llm: the prompts sent to the service (generate_content calls).
get_ai_response(user_input, key, svc) ==
    IF key = ""
    THEN [val |-> None, error |-> "ConfigError", llm |-> <<>>]
    ELSE IF svc.kind = "configure_raises"
    THEN [val |-> None, error |-> "ConfigureFailed", llm |-> <<>>]
    ELSE IF svc.kind = "generate_raises"
    THEN [val |-> None,
          error |-> IF svc.err = "API_KEY_INVALID" THEN "AuthError"
                    ELSE "TranslationServiceError",
          llm |-> <<user_input>>]
    ELSE LET json_match == re_search(svc.text) IN
         IF ~json_match.found
         THEN [val |-> None, error |-> "MalformedReplyError", llm |-> <<user_input>>]
         ELSE LET parsed == json_loads(json_match.group0) IN
              IF ~parsed.ok
              THEN [val |-> None, error |-> "ParseError", llm |-> <<user_input>>]
              ELSE IF SchemaOk(parsed.val)
                   THEN [val |-> parsed.val, error |-> "", llm |-> <<user_input>>]
                   ELSE [val |-> None, error |-> "SchemaError", llm |-> <<user_input>>]

\* -------------------------------------------------------- execute_command

RebootPath == "/system/reboot"

LeasePath == "/ip/dhcp-server/lease"

NoCommandAdvice ==
    Text(<<Lit("The AI could not determine a valid command for your request. Please try rephrasing it.")>>)

RebootAdvice ==
    Text(<<Lit("Reboot command received. Please use the 'System Controls' section in the sidebar to confirm the reboot.")>>)

ErrorText(e) ==
    Text(<<Lit("An error occurred while executing the command: "), Lit(e)>>)

\* What the router does with one query: raises an error whose text is err,
\* or returns the rows.
RouterRaises(e) == [raises |-> TRUE, err |-> e, rows |-> <<>>]

RouterReturns(rows) == [raises |-> FALSE, err |-> "", rows |-> rows]

\* One api.get_resource(path).get(**params) call, as the router sees it.
GetCall(path, params) == [op |-> "get", path |-> path, params |-> params]

\* One get_binary_resource('/system/reboot').call(), made by `by`.
RebootCall(by) == [op |-> "reboot", by |-> by]

\* Lines 134-137: result = api.get_resource(cmd_path).get(**params) inside
\* the try.  With no handle the attribute lookup raises before any call; a
\* raising query is caught and its text embedded in the error string.
Query(api, cmd_path, params, router) ==
    IF api = "None"
    THEN [val |-> ErrorText("'NoneType' object has no attribute 'get_resource'"),
          raised |-> FALSE, calls |-> <<>>]
    ELSE IF router.raises
    THEN [val |-> ErrorText(router.err), raised |-> FALSE,
          calls |-> <<GetCall(cmd_path, params)>>]
    ELSE [val |-> List(router.rows), raised |-> FALSE,
          calls |-> <<GetCall(cmd_path, params)>>]

\* Variant: the reboot path is not intercepted and is queried like any other.
execute_command_no_intercept(api, command_info, router) ==
    IF ~Truthy(command_info)
    THEN [val |-> NoCommandAdvice, raised |-> FALSE, calls |-> <<>>]
    ELSE Query(api, command_info.m["cmd"], command_info.m["params"], router)

\* Variant: a failed query is tried a second time before it is reported.
execute_command_retry(api, command_info, router) ==
    IF ~Truthy(command_info)
    THEN [val |-> NoCommandAdvice, raised |-> FALSE, calls |-> <<>>]
    ELSE IF command_info.m["cmd"] = Str(RebootPath)
    THEN [val |-> RebootAdvice, raised |-> FALSE, calls |-> <<>>]
    ELSE LET q == Query(api, command_info.m["cmd"], command_info.m["params"], router)
         IN IF router.raises THEN [q EXCEPT !.calls = q.calls \o q.calls] ELSE q

\* Variant: the absent descriptor is not tested for, and command_info['cmd']
\* raises a TypeError on None.
execute_command_unchecked(api, command_info, router) ==
    IF ~Truthy(command_info)
    THEN [val |-> None, raised |-> TRUE, calls |-> <<>>]
    ELSE IF command_info.m["cmd"] = Str(RebootPath)
    THEN [val |-> RebootAdvice, raised |-> FALSE, calls |-> <<>>]
    ELSE Query(api, command_info.m["cmd"], command_info.m["params"], router)

\* Variant: the query is made outside any try, so its failure leaves the
\* function.
execute_command_no_try(api, command_info, router) ==
    IF ~Truthy(command_info)
    THEN [val |-> NoCommandAdvice, raised |-> FALSE, calls |-> <<>>]
    ELSE IF command_info.m["cmd"] = Str(RebootPath)
    THEN [val |-> RebootAdvice, raised |-> FALSE, calls |-> <<>>]
    ELSE LET q == Query(api, command_info.m["cmd"], command_info.m["params"], router)
         IN IF router.raises \/ api = "None"
            THEN [val |-> None, raised |-> TRUE, calls |-> q.calls]
            ELSE q

\* execute_command(api, command_info), router being what the router does
\* with the query.  val: the value returned; raised: an exception left the
\* function; calls: the router calls made.
execute_command(api, command_info, router) ==
    IF ~Truthy(command_info)
    THEN [val |-> NoCommandAdvice, raised |-> FALSE, calls |-> <<>>]
    ELSE IF "cmd" \notin DOMAIN command_info.m
    THEN [val |-> None, raised |-> TRUE, calls |-> <<>>]      \* KeyError, line 127
    ELSE LET cmd_path == command_info.m["cmd"]
             params == IF "params" \in DOMAIN command_info.m
                       THEN command_info.m["params"]
                       ELSE Obj(EmptyMap)
         IN IF cmd_path = Str(RebootPath)
            THEN [val |-> RebootAdvice, raised |-> FALSE, calls |-> <<>>]
            ELSE Query(api, cmd_path, params, router)

\* -------------------------------------------------------- format_response

\* Field names are sequences of characters, so that the label's
\* replace('-', ' ').title() is computed and not assumed.
Lowers == <<"a", "c", "d", "e", "i", "m", "r", "s", "t", "u">>

Uppers == <<"A", "C", "D", "E", "I", "M", "R", "S", "T", "U">>

IsLower(c) == \E i \in DOMAIN Lowers : Lowers[i] = c

IsUpper(c) == \E i \in DOMAIN Uppers : Uppers[i] = c

Upper(c) == IF IsLower(c) THEN Uppers[CHOOSE i \in DOMAIN Lowers : Lowers[i] = c] ELSE c

Lower(c) == IF IsUpper(c) THEN Lowers[CHOOSE i \in DOMAIN Uppers : Uppers[i] = c] ELSE c

\* k.replace('-', ' ')
Replace(k) == [i \in DOMAIN k |-> IF k[i] = "-" THEN " " ELSE k[i]]

\* str.title(): a cased character is upper case when the character before it
\* is not cased, lower case when it is.
Title(k) ==
    [i \in DOMAIN k |->
        LET prevCased == i > 1 /\ (IsLower(k[i - 1]) \/ IsUpper(k[i - 1]))
        IN IF prevCased THEN Lower(k[i]) ELSE Upper(k[i])]

STATUS == <<"s", "t", "a", "t", "u", "s">>

\* dict.get(key) on a row: the value, or "None" when the key is absent.
RowGet(row, key) ==
    IF \E i \in DOMAIN row : row[i].key = key
    THEN row[CHOOSE i \in DOMAIN row : row[i].key = key].v
    ELSE "None"

\* "### Found {count} active client(s) online.\n\n---\n\n"
CountHeader(count) == [k |-> "count", n |-> count]

\* "- **{label}**: `{v}`"
FieldLine(label, v) == [k |-> "field", label |-> label, v |-> v]

\* "\n\n---\n\n"
Rule == [k |-> "rule"]

RowLines(item) ==
    [i \in DOMAIN item |-> FieldLine(Title(Replace(item[i].key)), item[i].v)]

RECURSIVE FormatRows(_)

\* The loop of lines 156-158 over the rows.
FormatRows(rows) ==
    IF rows = <<>> THEN <<>>
    ELSE RowLines(Head(rows)) \o <<Rule>> \o FormatRows(Tail(rows))

\* Variant: every lease is counted, bound or not.
ActiveLeasesAll(rows) == Len(rows)

\* len([lease for lease in response if lease.get('status') == 'bound'])
ActiveLeases(rows) ==
    Cardinality({i \in DOMAIN rows : RowGet(rows[i], STATUS) = "bound"})

\* command_info and command_info.get('cmd') == '/ip/dhcp-server/lease'
IsLeaseCommand(command_info) ==
    /\ Truthy(command_info)
    /\ "cmd" \in DOMAIN command_info.m
    /\ command_info.m["cmd"] = Str(LeasePath)

NoResults == Text(<<Lit("No results found or command executed successfully.")>>)

\* format_response(response, command_info)
format_response(response, command_info) ==
    IF IsStr(response) THEN response
    ELSE IF ~Truthy(response) THEN NoResults
    ELSE LET count_string ==
                 IF IsLeaseCommand(command_info)
                 THEN <<CountHeader(ActiveLeases(response.l))>>
                 ELSE <<>>
         IN Text(count_string \o FormatRows(response.l))

\* ------------------------------------------------------------------ inputs

\* {"cmd": <cmd>, "params": <params>} as tokens
DescToks(cmd, params) ==
    <<LB, S("cmd"), COLON, cmd, COMMA, S("params"), COLON>> \o params \o <<RB>>

ResourceObj == DescToks(S("/system/resource"), <<LB, RB>>)

LeaseObj == DescToks(S(LeasePath), <<LB, RB>>)

LeaseBoundObj == DescToks(S(LeasePath), <<LB, S("status"), COLON, S("bound"), RB>>)

RebootObj == DescToks(S(RebootPath), <<LB, RB>>)

RebootDelayObj == DescToks(S(RebootPath), <<LB, S("delay"), COLON, N("5"), RB>>)

LogFilterObj ==
    DescToks(S("/log"), <<LB, S("topics"), COLON, S("dhcp"), COMMA,
                          S("message"), COLON, S("assigned"), RB>>)

\* The pieces model replies are made of: prose, well-formed descriptors,
\* objects of another shape, and unbalanced or unparseable braces.
Segments ==
    { <<W("Sure!")>>,
      ResourceObj, LeaseObj, LeaseBoundObj, RebootObj, RebootDelayObj, LogFilterObj,
      DescToks(S(""), <<LB, RB>>),
      DescToks(NULL, <<LB, RB>>),
      DescToks(S("/log"), <<NULL>>),
      <<LB, S("cmd"), COLON, S("/log"), RB>>,
      <<LB, S("params"), COLON, LB, RB, RB>>,
      <<LB, RB>>,
      <<LB>>,
      <<RB>>,
      <<LB, W("oops"), RB>> }

RECURSIVE Concat(_)

Concat(segs) == IF segs = <<>> THEN <<>> ELSE Head(segs) \o Concat(Tail(segs))

Replies ==
    UNION { {Concat(segs) : segs \in [1..n -> Segments]} : n \in 1..MaxSegs }

Prompts == {"how many clients are online?", "reboot the router"}

Keys == {"", "AIza-key"}

Svcs ==
    {SvcConfigureRaises, SvcRaises("API_KEY_INVALID"), SvcRaises("503 unavailable")}
        \cup {SvcReply(r) : r \in Replies}

\* Every value the Translator returns with a credential set: None and each
\* descriptor it accepts.
Descs == {get_ai_response("q", "AIza-key", svc).val : svc \in Svcs}

MAC == <<"m", "a", "c", "-", "a", "d", "d", "r", "e", "s", "s">>

ID == <<".", "i", "d">>

Field(key, v) == [key |-> key, v |-> v]

Rows ==
    { <<Field(MAC, "AA:BB"), Field(STATUS, "bound")>>,
      <<Field(MAC, "CC:DD"), Field(STATUS, "waiting")>>,
      <<Field(STATUS, "bound")>>,
      <<Field(ID, "*1")>> }

Results == UNION { [1..n -> Rows] : n \in 0..MaxRecs }

RouterErrors == {"timed out", "not enough permissions", "no such command"}

RouterOutcomes ==
    {RouterRaises(e) : e \in RouterErrors} \cup {RouterReturns(r) : r \in Results}

Responses ==
    {List(r) : r \in Results}
        \cup {NoCommandAdvice, RebootAdvice} \cup {ErrorText(e) : e \in RouterErrors}

\* ------------------------------------------- the core entry points, alone

\* Each behaviour applies one entry point once, to inputs of the sets above.

Translate ==
    /\ fn = "none"
    /\ \E user_input \in Prompts, key \in Keys, svc \in Svcs :
          /\ fn' = "get_ai_response"
          /\ args' = [user_input |-> user_input, api_key |-> key, svc |-> svc]
          /\ ret' = get_ai_response(user_input, key, svc)
    /\ UNCHANGED sessionVars

Execute ==
    /\ fn = "none"
    /\ \E api \in {"api", "None"}, command_info \in Descs, router \in RouterOutcomes :
          /\ fn' = "execute_command"
          /\ args' = [api |-> api, command_info |-> command_info, router |-> router]
          /\ ret' = execute_command(api, command_info, router)
    /\ UNCHANGED sessionVars

Format ==
    /\ fn = "none"
    /\ \E response \in Responses, command_info \in Descs :
          /\ fn' = "format_response"
          /\ args' = [response |-> response, command_info |-> command_info]
          /\ ret' = [val |-> format_response(response, command_info)]
    /\ UNCHANGED sessionVars

\* ----------------------------------------------------------- the session

\* One entry of st.session_state.messages.
Msg(role, content) == [role |-> role, content |-> content]

Greeting ==
    Text(<<Lit("Hello! Please provide your credentials and API key in the sidebar to get started.")>>)

\* The session state a handler reads and writes.
Session == [api_connection |-> api_connection, connection_pool |-> connection_pool,
            api_key |-> api_key, messages |-> messages]

\* What a script run did: the control or input handled, how it ended, the
\* prompts sent to the language model, the router calls made, whether the
\* session was connected when it started, and for a chat turn the prompt, the
\* Translator's value and the Executor's value.
Log(op, outcome, ss, llm, calls, prompt, desc, response) ==
    [op |-> op, outcome |-> outcome, connected |-> ss.api_connection # "None",
     llm |-> llm, calls |-> calls, prompt |-> prompt, desc |-> desc,
     response |-> response]

SimpleLog(op, outcome, ss, calls) == Log(op, outcome, ss, <<>>, calls, "", None, None)

\* Variant: the pool is stored as soon as it is built, before get_api() can
\* raise its connection error.
connect_to_mikrotik_pool_first(ss, outcome) ==
    IF outcome = "ok"
    THEN [ss EXCEPT !.api_connection = "api", !.connection_pool = "pool"]
    ELSE IF outcome = "RouterOsApiConnectionError"
    THEN [ss EXCEPT !.connection_pool = "pool"]
    ELSE ss

\* connect_to_mikrotik(host, user, password): RouterOsApiPool(...) or
\* get_api() raises before anything is stored, or both handles are stored.
connect_to_mikrotik(ss, outcome) ==
    IF outcome = "ok"
    THEN [ss EXCEPT !.api_connection = "api", !.connection_pool = "pool"]
    ELSE ss

\* Lines 191-197: the Connect button.
connect_click(ss, host, user, outcome) ==
    IF host # "" /\ user # "" /\ ss.api_key # ""
    THEN [ss |-> connect_to_mikrotik(ss, outcome),
          log |-> SimpleLog("connect", outcome, ss, <<>>)]
    ELSE [ss |-> ss, log |-> SimpleLog("connect", "missing details", ss, <<>>)]

\* Lines 185-189: the Disconnect button.  A raising disconnect() leaves the
\* run before the handles are cleared.
disconnect_click(ss, outcome) ==
    IF outcome = "ok"
    THEN [ss |-> [ss EXCEPT !.api_connection = "None", !.connection_pool = "None"],
          log |-> SimpleLog("disconnect", "ok", ss, <<>>)]
    ELSE [ss |-> ss, log |-> SimpleLog("disconnect", outcome, ss, <<>>)]

\* Lines 203-214: the REBOOT ROUTER NOW button.  Everything from
\* get_binary_resource to disconnect() is inside the try; whatever raises is
\* caught and shown, and the handles are cleared only after all of it.
reboot_click(ss, outcome) ==
    CASE outcome = "get_binary_resource raises" ->
            [ss |-> ss, log |-> SimpleLog("reboot", outcome, ss, <<>>)]
      [] outcome = "call raises" ->
            [ss |-> ss, log |-> SimpleLog("reboot", outcome, ss, <<RebootCall("control")>>)]
      [] outcome = "disconnect raises" ->
            [ss |-> ss, log |-> SimpleLog("reboot", outcome, ss, <<RebootCall("control")>>)]
      [] outcome = "ok" ->
            [ss |-> [ss EXCEPT !.api_connection = "None", !.connection_pool = "None"],
             log |-> SimpleLog("reboot", "ok", ss, <<RebootCall("control")>>)]

\* Variant: the turn ends when the Translator returns no descriptor.
run_pipeline_stops(ss, prompt, svc, router) ==
    LET withUser == Append(ss.messages, Msg("user", Text(<<Lit(prompt)>>)))
        tr == get_ai_response(prompt, ss.api_key, svc)
        ex == execute_command(ss.api_connection, tr.val, router)
    IN IF tr.val = None
       THEN [ss |-> [ss EXCEPT !.messages = withUser],
             log |-> Log("chat", "done", ss, tr.llm, <<>>, prompt, tr.val, None)]
       ELSE [ss |-> [ss EXCEPT !.messages =
                        Append(withUser, Msg("assistant", format_response(ex.val, tr.val)))],
             log |-> Log("chat", "done", ss, tr.llm, ex.calls, prompt, tr.val, ex.val)]

\* Lines 229-241: the pipeline of one chat turn.
run_pipeline(ss, prompt, svc, router) ==
    LET withUser == Append(ss.messages, Msg("user", Text(<<Lit(prompt)>>)))
        tr == get_ai_response(prompt, ss.api_key, svc)
        command_info == tr.val
        ex == execute_command(ss.api_connection, command_info, router)
    IN IF ex.raised
       THEN [ss |-> [ss EXCEPT !.messages = withUser],
             log |-> Log("chat", "raised", ss, tr.llm, ex.calls, prompt, command_info, None)]
       ELSE LET formatted_output == format_response(ex.val, command_info)
            IN [ss |-> [ss EXCEPT !.messages =
                                      Append(withUser, Msg("assistant", formatted_output))],
                log |-> Log("chat", "done", ss, tr.llm, ex.calls, prompt,
                            command_info, ex.val)]

\* Variant: only the connection is tested before the pipeline runs.
chat_turn_no_key_gate(ss, prompt, svc, router) ==
    IF ss.api_connection = "None"
    THEN [ss |-> ss, log |-> Log("chat", "stopped", ss, <<>>, <<>>, prompt, None, None)]
    ELSE run_pipeline(ss, prompt, svc, router)

\* Lines 220-241: the chat input, with its two st.stop() gates.
chat_turn(ss, prompt, svc, router) ==
    IF ss.api_connection = "None"
    THEN [ss |-> ss, log |-> Log("chat", "stopped", ss, <<>>, <<>>, prompt, None, None)]
    ELSE IF ss.api_key = ""
    THEN [ss |-> ss, log |-> Log("chat", "stopped", ss, <<>>, <<>>, prompt, None, None)]
    ELSE run_pipeline(ss, prompt, svc, router)

Hosts == {"", "192.168.88.1"}

Users == {"", "admin"}

ConnectOutcomes == {"ok", "RouterOsApiConnectionError", "Exception"}

DisconnectOutcomes == {"ok", "raises"}

RebootOutcomes == {"ok", "get_binary_resource raises", "call raises", "disconnect raises"}

\* What the language model does in the session's chat turns.
SessionSvcs ==
    { SvcRaises("API_KEY_INVALID"),
      SvcReply(<<W("Sorry"), W("no"), W("idea")>>),
      SvcReply(<<W("Sure!")>> \o ResourceObj \o <<W("Hope"), W("that"), W("helps!")>>),
      SvcReply(LeaseObj),
      SvcReply(LeaseBoundObj),
      SvcReply(RebootObj),
      SvcReply(RebootDelayObj),
      SvcReply(ResourceObj \o <<W("or")>> \o LeaseObj) }

\* What the router does in the session's chat turns.
SessionRouterOutcomes ==
    { RouterRaises("timed out"),
      RouterReturns(<<>>),
      RouterReturns(<< <<Field(MAC, "AA:BB"), Field(STATUS, "bound")>>,
                       <<Field(MAC, "CC:DD"), Field(STATUS, "waiting")>> >>) }

Apply(r) ==
    /\ api_connection' = r.ss.api_connection
    /\ connection_pool' = r.ss.connection_pool
    /\ api_key' = r.ss.api_key
    /\ messages' = r.ss.messages
    /\ last' = r.log

\* The key widget of the sidebar is edited.
SetApiKey ==
    /\ \E key \in Keys \ {api_key} :
          Apply([ss |-> [Session EXCEPT !.api_key = key],
                 log |-> SimpleLog("set_key", "ok", Session, <<>>)])
    /\ UNCHANGED <<turns, callVars>>

\* The Connect button is shown while api_connection is not set.
Connect ==
    /\ api_connection = "None"
    /\ \E host \in Hosts, user \in Users, outcome \in ConnectOutcomes :
          Apply(connect_click(Session, host, user, outcome))
    /\ UNCHANGED <<turns, callVars>>

\* The Disconnect button is shown while api_connection is set.
Disconnect ==
    /\ api_connection # "None"
    /\ \E outcome \in DisconnectOutcomes : Apply(disconnect_click(Session, outcome))
    /\ UNCHANGED <<turns, callVars>>

\* The REBOOT ROUTER NOW button is shown while api_connection is set.
Reboot ==
    /\ api_connection # "None"
    /\ \E outcome \in RebootOutcomes : Apply(reboot_click(Session, outcome))
    /\ UNCHANGED <<turns, callVars>>

\* The user submits a prompt in the chat input.
ChatTurn ==
    /\ turns < MaxTurns
    /\ \E prompt \in Prompts, svc \in SessionSvcs, router \in SessionRouterOutcomes :
          LET r == chat_turn(Session, prompt, svc, router)
          IN /\ Apply(r)
             /\ turns' = IF r.log.outcome = "stopped" THEN turns ELSE turns + 1
    /\ UNCHANGED callVars

\* ------------------------------------------------------- specifications

Init ==
    /\ api_connection = "None"
    /\ connection_pool = "None"
    /\ api_key = ""
    /\ messages = <<Msg("assistant", Greeting)>>
    /\ turns = 0
    /\ last = Log("start", "ok", [api_connection |-> "None"], <<>>, <<>>, "", None, None)
    /\ fn = "none"
    /\ args = <<>>
    /\ ret = [val |-> None]

Next == SetApiKey \/ Connect \/ Disconnect \/ Reboot \/ ChatTurn

\* The session: the sidebar's controls and the chat input.
Spec == Init /\ [][Next]_vars

NextCore == Translate \/ Execute \/ Format

\* The three core entry points, each applied to inputs of the bounded sets.
SpecCore == Init /\ [][NextCore]_vars

\* ----------------------------------------------------------- properties

\* The path and the params of a descriptor.
PathOf(command_info) == command_info.m["cmd"]

ParamsOf(command_info) == command_info.m["params"].m

IsRebootDesc(command_info) == IsDict(command_info) /\ PathOf(command_info) = Str(RebootPath)

\* The run just made was a chat turn that entered the pipeline.
PipelineRan == last.op = "chat" /\ last.outcome # "stopped"

\* C1: a chat turn whose descriptor has the path /system/reboot, whatever its
\* params, makes no router call at all and answers with the fixed reboot
\* advice; and in every run the binary reboot action is called only by the
\* REBOOT ROUTER NOW control, on a connected session, never by a chat turn.
C1_RebootNeverFromChat ==
    /\ (PipelineRan /\ IsRebootDesc(last.desc)) =>
          /\ last.calls = <<>>
          /\ last.response = RebootAdvice
          /\ messages[Len(messages)] = Msg("assistant", RebootAdvice)
    /\ \A i \in DOMAIN last.calls :
          last.calls[i].op = "reboot" =>
              /\ last.op = "reboot"
              /\ last.calls[i].by = "control"
              /\ last.connected
    /\ last.op = "chat" => \A i \in DOMAIN last.calls : last.calls[i].op = "get"

\* C1's case: a chat turn translated to the reboot path with params has run.
C1_Witness ==
    /\ PipelineRan
    /\ IsRebootDesc(last.desc)
    /\ DOMAIN ParamsOf(last.desc) # {}
    /\ last.outcome = "done"

\* C2: for a descriptor with a non-reboot string path and non-empty params, on
\* a live handle, execute_command makes exactly one query, at that path with
\* those params, whether the query returns or raises.
C2_ExactlyOneQuery ==
    (/\ fn = "execute_command"
     /\ args.api = "api"
     /\ IsDict(args.command_info)
     /\ PathOf(args.command_info).t = "str"
     /\ PathOf(args.command_info).s \notin {"", RebootPath}
     /\ DOMAIN ParamsOf(args.command_info) # {})
    => /\ Len(ret.calls) = 1
       /\ ret.calls[1].op = "get"
       /\ ret.calls[1].path = PathOf(args.command_info)
       /\ ret.calls[1].params = args.command_info.m["params"]

\* C2's case: such a query was made and the router raised.
C2_Witness ==
    /\ fn = "execute_command"
    /\ args.api = "api"
    /\ IsDict(args.command_info)
    /\ PathOf(args.command_info) = Str("/log")
    /\ Cardinality(DOMAIN ParamsOf(args.command_info)) = 2
    /\ args.router.raises
    /\ Len(ret.calls) = 1

\* C3: for an absent descriptor execute_command returns the fixed "could not
\* determine a valid command" advice and makes no router call.
C3_AbsentDescriptor ==
    (fn = "execute_command" /\ args.command_info = None)
    => /\ ret.val = NoCommandAdvice
       /\ ret.calls = <<>>
       /\ ~ret.raised

\* C3's case: execute_command ran on None with a live handle.
C3_Witness ==
    /\ fn = "execute_command"
    /\ args.command_info = None
    /\ args.api = "api"
    /\ ret.val = NoCommandAdvice

\* C4: for None and every descriptor the Translator can return, no exception
\* leaves execute_command; a query that raises is answered by the error
\* string that embeds the failure's description.
C4_FailuresAreCaught ==
    fn = "execute_command"
    => /\ ~ret.raised
       /\ (args.router.raises /\ ret.calls # <<>>) => ret.val = ErrorText(args.router.err)
       /\ IsStr(ret.val) \/ ret.val = List(args.router.rows)

\* C4's case: the query for a descriptor whose path is null raised.
C4_Witness ==
    /\ fn = "execute_command"
    /\ IsDict(args.command_info)
    /\ PathOf(args.command_info) = Null
    /\ args.router.raises
    /\ args.router.err = "not enough permissions"
    /\ ret.calls # <<>>

\* C5: every descriptor get_ai_response returns has a "cmd" that is present
\* and a non-empty string, and a "params" that is a mapping.
C5_DescriptorShape ==
    (fn = "get_ai_response" /\ ret.val # None)
    => /\ IsDict(ret.val)
       /\ "cmd" \in DOMAIN ret.val.m
       /\ ret.val.m["cmd"].t = "str"
       /\ ret.val.m["cmd"].s # ""
       /\ "params" \in DOMAIN ret.val.m
       /\ IsDict(ret.val.m["params"])

RECURSIVE Scan(_, _, _, _)

\* The balanced {...} spans of a text that lie in no other, in order.
Scan(text, i, depth, start) ==
    IF i > Len(text) THEN <<>>
    ELSE IF text[i] = LB
    THEN Scan(text, i + 1, depth + 1, IF depth = 0 THEN i ELSE start)
    ELSE IF text[i] = RB
    THEN IF depth = 0 THEN Scan(text, i + 1, 0, 0)
         ELSE IF depth = 1
         THEN <<SubSeq(text, start, i)>> \o Scan(text, i + 1, 0, 0)
         ELSE Scan(text, i + 1, depth - 1, start)
    ELSE Scan(text, i + 1, depth, start)

ObjectSpans(text) == Scan(text, 1, 0, 0)

\* C6: when the reply holds several object-shaped substrings and the first of
\* them encodes a descriptor (with a non-empty path), get_ai_response returns
\* that descriptor.
C6_FirstMatch ==
    (/\ fn = "get_ai_response"
     /\ args.api_key # ""
     /\ args.svc.kind = "reply"
     /\ Len(ObjectSpans(args.svc.text)) >= 2
     /\ json_loads(ObjectSpans(args.svc.text)[1]).ok
     /\ SchemaOk(json_loads(ObjectSpans(args.svc.text)[1]).val)
     /\ Truthy(json_loads(ObjectSpans(args.svc.text)[1]).val.m["cmd"]))
    => ret.val = json_loads(ObjectSpans(args.svc.text)[1]).val

\* s is t with entries appended.
IsPrefix(s, t) == Len(s) <= Len(t) /\ SubSeq(t, 1, Len(s)) = s

\* C7: the transcript only grows by appending; a chat turn that enters the
\* pipeline ends with the user entry and then exactly one assistant entry
\* with a non-empty text appended, whatever failed in it; no other run
\* touches the transcript.
C7_TranscriptAppendOnly ==
    [][/\ IsPrefix(messages, messages')
       /\ IF turns' # turns
          THEN /\ last'.op = "chat"
               /\ last'.outcome = "done"
               /\ Len(messages') = Len(messages) + 2
               /\ messages'[Len(messages) + 1] = Msg("user", Text(<<Lit(last'.prompt)>>))
               /\ messages'[Len(messages) + 2].role = "assistant"
               /\ messages'[Len(messages) + 2].content.t = "text"
               /\ messages'[Len(messages) + 2].content.parts # <<>>
          ELSE messages' = messages]_vars

\* C7's case: two turns ran, the last with a failed translation, and the
\* transcript holds the greeting and both pairs of entries.
C7_Witness ==
    /\ turns = 2
    /\ PipelineRan
    /\ last.desc = None
    /\ Len(messages) = 5
    /\ messages[5] = Msg("assistant", NoCommandAdvice)

\* The rows of a result whose status field is "bound".
BoundCount(rows) ==
    Cardinality({i \in DOMAIN rows :
                    \E j \in DOMAIN rows[i] :
                        rows[i][j].key = STATUS /\ rows[i][j].v = "bound"})

RECURSIVE Offset(_, _)

\* The number of items the rows before row i take: their fields and a rule each.
Offset(rows, i) == IF i = 1 THEN 0 ELSE Offset(rows, i - 1) + Len(rows[i - 1]) + 1

\* body holds, for each row in order, one line per field in order and a rule.
ListsAll(body, rows) ==
    /\ Len(body) = Offset(rows, Len(rows) + 1)
    /\ \A i \in DOMAIN rows :
          /\ \A j \in DOMAIN rows[i] :
                /\ body[Offset(rows, i) + j].k = "field"
                /\ body[Offset(rows, i) + j].v = rows[i][j].v
                /\ Len(body[Offset(rows, i) + j].label) = Len(rows[i][j].key)
          /\ body[Offset(rows, i) + Len(rows[i]) + 1] = Rule

\* C8: for a non-empty result of N rows, K of them bound, and the path
\* /ip/dhcp-server/lease, the text is one header with the count K followed by
\* all N rows in order; for another path it is the N rows with no header.
C8_LeaseHeader ==
    (/\ fn = "format_response"
     /\ args.response.t = "list"
     /\ args.response.l # <<>>
     /\ IsDict(args.command_info))
    => IF PathOf(args.command_info) = Str(LeasePath)
       THEN /\ Head(ret.val.parts) = CountHeader(BoundCount(args.response.l))
            /\ ListsAll(Tail(ret.val.parts), args.response.l)
       ELSE ListsAll(ret.val.parts, args.response.l)

\* C8's case: a lease result of two rows, one of them bound, was formatted.
C8_Witness ==
    /\ fn = "format_response"
    /\ args.response.t = "list"
    /\ Len(args.response.l) = 2
    /\ BoundCount(args.response.l) = 1
    /\ IsDict(args.command_info)
    /\ PathOf(args.command_info) = Str(LeasePath)
    /\ Head(ret.val.parts) = CountHeader(1)

\* C9: a chat turn submitted while the session is disconnected or the key is
\* empty stops before the pipeline: no prompt goes to the language model, no
\* call to the router, and the transcript is unchanged.
C9_GatedTurn ==
    [][(last'.op = "chat" /\ (api_connection = "None" \/ api_key = ""))
         => /\ last'.outcome = "stopped"
            /\ last'.llm = <<>>
            /\ last'.calls = <<>>
            /\ messages' = messages
            /\ turns' = turns]_vars

\* C9's case: a chat turn was stopped on a connected session with no key.
C9_Witness ==
    /\ last.op = "chat"
    /\ last.outcome = "stopped"
    /\ last.connected
    /\ api_key = ""

\* C10: api_connection is set iff connection_pool is; a Disconnect or a reboot
\* that ran to its end leaves both unset, a failed Connect leaves both unset,
\* and a chat turn changes neither.
C10_HandlesTogether ==
    /\ (api_connection = "None") <=> (connection_pool = "None")
    /\ (last.op \in {"disconnect", "reboot"} /\ last.outcome = "ok")
          => (api_connection = "None" /\ connection_pool = "None")
    /\ (last.op = "connect" /\ last.outcome # "ok")
          => (api_connection = "None" /\ connection_pool = "None")
    /\ (last.op = "connect" /\ last.outcome = "ok")
          => (api_connection = "api" /\ connection_pool = "pool")
    /\ last.op = "chat"
          => (last.connected <=> api_connection # "None")

\* C10's case: the reboot was sent but the disconnect after it raised, and
\* both handles are still set.
C10_Witness ==
    /\ last.op = "reboot"
    /\ last.outcome = "disconnect raises"
    /\ last.calls = <<RebootCall("control")>>
    /\ api_connection = "api"
    /\ connection_pool = "pool"

====
